---- MODULE Spec2Model ----
(***************************************************************************)
(* The task-list view (Dashboard) of frontend/src/App.js: the URL-bound    *)
(* filter/sort/page parameters, the debounced GET /tasks effect, and the   *)
(* application of fetch results to the view state.                         *)
(***************************************************************************)
EXTENDS Integers, Sequences, FiniteSets, TLC

\* ------------------------------------------------------------------ bounds
MaxFetch == 2      \* GET /tasks requests issued in one behaviour
MaxMut == 1        \* POST, PUT and DELETE requests issued in one behaviour
MaxMidnights == 1  \* midnights that pass in one behaviour
MaxToasts == 1     \* submits of an invalid form in one behaviour

\* --------------------------------------------------------------- constants
NULL == "<null>"   \* URLSearchParams.get(key) of an absent key
NaN == 0 - 1       \* parseInt of a string that is no decimal number
MaxInt == 12       \* range over which decimal strings are formatted/parsed

VARIABLES
    searchParams,  \* URLSearchParams of location.search: Seq of [k, v]
    timers,        \* pending setTimeout handlers: Seq of loadTasks closures
    handler,       \* index in timers of the last effect's handler, 0 if it fired
    inflight,      \* GET /tasks requests awaiting axios: set of [id, url, params]
    issued,        \* number of GET /tasks requests issued so far
    tasks,         \* useState tasks: [n |-> number of tasks shown]
    pagination,    \* useState pagination: [page, per_page, total, total_pages]
    shown,         \* ids of the responses tasks and pagination were taken from
    loading,       \* useState loading
    toasts,        \* toast() calls made so far, newest last, as [description, id]
    burst,         \* URL changes and timer fetches since the last quiet period
    last,          \* the handler that ran last: [op, id, key, value]
    mounted,       \* the Dashboard component is mounted
    showTaskModal, \* useState showTaskModal
    editingTask,   \* useState editingTask: a task, or NoTask
    taskForm,      \* useState taskForm: the draft
    formErrors,    \* useState formErrors: field name -> message
    mutations,     \* POST/PUT/DELETE requests awaiting axios
    mutIssued,     \* number of POST/PUT/DELETE requests issued so far
    now,           \* the wall clock (new Date()), in hours of local time
    statusCounts,  \* useState statusCounts: [todo, doing, done, total]
    statsInflight, \* GET /tasks/stats requests awaiting axios: set of [id, url]
    statsIssued    \* number of GET /tasks/stats requests issued so far

formVars == <<showTaskModal, editingTask, taskForm, formErrors, mutations,
              mutIssued, now>>

statsVars == <<statusCounts, statsInflight, statsIssued>>

vars == <<searchParams, timers, handler, inflight, issued, tasks, pagination,
          shown, loading, toasts, burst, last, mounted, formVars, statsVars>>

\* ------------------------------------------------------- decimal strings
Digit == <<"0", "1", "2", "3", "4", "5", "6", "7", "8", "9">>

RECURSIVE ToStr(_)
\* Number.prototype.toString for a non-negative integer
ToStr(n) == IF n < 10 THEN Digit[n + 1] ELSE ToStr(n \div 10) \o Digit[(n % 10) + 1]

\* parseInt(s, 10) on the strings the model uses
ParseInt(s) ==
    IF \E n \in 0..MaxInt : ToStr(n) = s
    THEN CHOOSE n \in 0..MaxInt : ToStr(n) = s
    ELSE NaN

Max(a, b) == IF a >= b THEN a ELSE b
Min(a, b) == IF a <= b THEN a ELSE b

\* ------------------------------------------------------- URLSearchParams
Pair(k, v) == [k |-> k, v |-> v]

\* URLSearchParams.get: the first value of key, null when absent
Get(p, key) ==
    IF \E i \in 1..Len(p) : p[i].k = key
    THEN p[CHOOSE i \in 1..Len(p) : p[i].k = key /\ \A j \in 1..(i - 1) : p[j].k # key].v
    ELSE NULL

Has(p, key) == \E i \in 1..Len(p) : p[i].k = key

\* URLSearchParams.delete: every pair of key is removed
Delete(p, key) == SelectSeq(p, LAMBDA e : e.k # key)

\* URLSearchParams.set: the first pair of key takes the value (the others go),
\* an absent key is appended
Set(p, key, value) ==
    IF Has(p, key)
    THEN LET i == CHOOSE i \in 1..Len(p) : p[i].k = key /\ \A j \in 1..(i - 1) : p[j].k # key
         IN  SubSeq(p, 1, i - 1) \o <<Pair(key, value)>>
                 \o Delete(SubSeq(p, i + 1, Len(p)), key)
    ELSE Append(p, Pair(key, value))

RECURSIVE toString(_)
\* URLSearchParams.toString: k=v joined by & in insertion order
toString(p) ==
    IF p = <<>> THEN ""
    ELSE IF Len(p) = 1 THEN p[1].k \o "=" \o p[1].v
    ELSE p[1].k \o "=" \o p[1].v \o "&" \o toString(Tail(p))

\* JavaScript a || b on a string-or-null a
OrElse(a, b) == IF a = NULL \/ a = "" THEN b ELSE a

\* ---------------------------------------- values derived on every render
page == ParseInt(OrElse(Get(searchParams, "page"), "1"))
per_page == ParseInt(OrElse(Get(searchParams, "per_page"), "10"))

\* the filters object a render derives from URL parameters p
Filters(p) ==
    [search |-> OrElse(Get(p, "search"), ""),
     status |-> OrElse(Get(p, "status"), ""),
     priority |-> OrElse(Get(p, "priority"), ""),
     tags |-> OrElse(Get(p, "tags"), ""),
     due_date_start |-> OrElse(Get(p, "due_date_start"), ""),
     due_date_end |-> OrElse(Get(p, "due_date_end"), ""),
     assigned_to |-> OrElse(Get(p, "assigned_to"), ""),
     sort_by |-> OrElse(Get(p, "sort_by"), "created_at"),
     sort_order |-> OrElse(Get(p, "sort_order"), "desc")]

filters == Filters(searchParams)

\* ------------------------------------------------------------ the server
CeilDiv(a, b) == (a + b - 1) \div b

\* totals the server may report for a query: none, one page, two pages of ten
ServerTotals == {0, 5, 15}

\* page and per_page as the server reads them from the query
ReqPage(params) == ParseInt(OrElse(Get(params, "page"), "1"))
ReqPerPage(params) == ParseInt(OrElse(Get(params, "per_page"), "10"))

\* the server answers 200 only to a query whose page and per_page are
\* positive integers
ServerAccepts(params) == ReqPage(params) >= 1 /\ ReqPerPage(params) >= 1

\* body of a 200 response to GET /tasks?params when total tasks match
ServerResponse(params, total) ==
    LET pg == ReqPage(params)
        pp == ReqPerPage(params)
    IN  [tasks |-> [n |-> Max(0, Min(pp, total - (pg - 1) * pp))],
         pagination |-> [page |-> pg, per_page |-> pp, total |-> total,
                         total_pages |-> Max(1, CeilDiv(total, pp))]]

\* ------------------------------------------------------ debounce effect
\* a cleanup that leaves the pending timer alone
clearTimeoutForgotten(ts, h) == ts

\* clearTimeout(handler) of the effect's cleanup: h = 0 when it already fired
clearTimeout(ts, h) ==
    IF h = 0 THEN ts ELSE SubSeq(ts, 1, h - 1) \o SubSeq(ts, h + 1, Len(ts))

\* an effect that does not run again when loadTasks changes
DebounceEffectOnce(ts, h, params) == [timers |-> ts, handler |-> h]

\* timers and handler after the effect re-ran for a render whose loadTasks
\* closes over params: cleanup of the previous run, then setTimeout(.., 500)
DebounceEffect(ts, h, params) ==
    LET kept == clearTimeout(ts, h)
    IN  [timers |-> Append(kept, params), handler |-> Len(kept) + 1]

\* setSearchParams(newParams): the URL changes, the component re-renders;
\* useSearchParams yields a new object only when location.search changed, and
\* only then loadTasks changes and the debounce effect re-runs
setSearchParams(newParams) ==
    /\ searchParams' = newParams
    /\ IF toString(newParams) # toString(searchParams)
       THEN LET e == DebounceEffect(timers, handler, newParams)
            IN  /\ timers' = e.timers
                /\ handler' = e.handler
                /\ burst' = IF timers = <<>>
                            THEN [sets |-> 1, fetches |-> <<>>]
                            ELSE [burst EXCEPT !.sets = Min(2, @ + 1)]
       ELSE UNCHANGED <<timers, handler, burst>>

\* --------------------------------------------------- Query-State Store
\* the page under the task dialog takes input: the view is mounted and the
\* modal dialog, which covers the page, is closed
PageInteractive == mounted /\ ~showTaskModal

\* handleFilterChange without its page reset
FilterChangeParamsKeepPage(p, key, value) ==
    IF value # "" /\ value # "all" /\ value # "unassigned"
    THEN Set(p, key, value)
    ELSE Delete(p, key)

\* handleFilterChange starting from an empty URLSearchParams
FilterChangeParamsFresh(p, key, value) ==
    LET stored == IF value # "" /\ value # "all" /\ value # "unassigned"
                  THEN Set(<<>>, key, value)
                  ELSE <<>>
    IN  Set(stored, "page", "1")

\* handleFilterChange testing only that value is truthy
FilterChangeParamsTruthy(p, key, value) ==
    Set(IF value # "" THEN Set(p, key, value) ELSE Delete(p, key), "page", "1")

\* newParams of handleFilterChange(key, value)
FilterChangeParams(p, key, value) ==
    LET stored == IF value # "" /\ value # "all" /\ value # "unassigned"
                  THEN Set(p, key, value)
                  ELSE Delete(p, key)
    IN  Set(stored, "page", "1")

handleFilterChange(key, value) ==
    /\ PageInteractive
    /\ setSearchParams(FilterChangeParams(searchParams, key, value))
    /\ last' = [op |-> "set", id |-> 0, key |-> key, value |-> value]
    /\ UNCHANGED <<inflight, issued, tasks, pagination, shown, loading, toasts>>
    /\ UNCHANGED <<mounted, formVars, statsVars>>

\* a clear that leaves every default out of the URL
DefaultParamsOmitted == <<>>

\* two handleFilterChange calls run before the view has rendered again:
\* both copy the searchParams of the same render, the URL is replaced
\* twice, and the render that follows sees the second URL
handleFilterChangeTwice(key1, value1, key2, value2) ==
    /\ PageInteractive
    /\ setSearchParams(FilterChangeParams(searchParams, key2, value2))
    /\ last' = [op |-> "batch", id |-> 0, key |-> key2, value |-> value2,
                key1 |-> key1, value1 |-> value1]
    /\ UNCHANGED <<inflight, issued, tasks, pagination, shown, loading, toasts>>
    /\ UNCHANGED <<mounted, formVars, statsVars>>

\* the parameters clearFilters writes
DefaultParams ==
    <<Pair("page", "1"), Pair("per_page", "10"),
      Pair("sort_by", "created_at"), Pair("sort_order", "desc")>>

\* a clear that writes the defaults over the current parameters
clearFiltersMerging ==
    /\ PageInteractive
    /\ setSearchParams(Set(Set(Set(Set(searchParams, "page", "1"), "per_page", "10"),
                               "sort_by", "created_at"), "sort_order", "desc"))
    /\ last' = [op |-> "clear", id |-> 0, key |-> "", value |-> ""]
    /\ UNCHANGED <<inflight, issued, tasks, pagination, shown, loading, toasts>>
    /\ UNCHANGED <<mounted, formVars, statsVars>>

\* a clear that appends the defaults to what clearing left of the URL
clearFiltersAppending ==
    /\ PageInteractive
    /\ setSearchParams(SelectSeq(searchParams, LAMBDA e : e.k = "page") \o DefaultParams)
    /\ last' = [op |-> "clear", id |-> 0, key |-> "", value |-> ""]
    /\ UNCHANGED <<inflight, issued, tasks, pagination, shown, loading, toasts>>
    /\ UNCHANGED <<mounted, formVars, statsVars>>

clearFilters ==
    /\ PageInteractive
    /\ setSearchParams(DefaultParams)
    /\ last' = [op |-> "clear", id |-> 0, key |-> "", value |-> ""]
    /\ UNCHANGED <<inflight, issued, tasks, pagination, shown, loading, toasts>>
    /\ UNCHANGED <<mounted, formVars, statsVars>>

\* the filter keys in the order the filter panel shows them
FilterKeys ==
    <<"search", "status", "priority", "tags", "assigned_to", "due_date_start",
      "due_date_end", "sort_by", "sort_order">>

RECURSIVE WriteFilters(_, _, _)
\* parameters p after handleFilterChange wrote the first n filters of F
WriteFilters(p, F, n) ==
    IF n = 0 THEN p
    ELSE FilterChangeParams(WriteFilters(p, F, n - 1), FilterKeys[n], F[FilterKeys[n]])

\* a serialization that writes the page before the filters
serializePageFirst(F, pg) ==
    WriteFilters(Set(<<>>, "page", ToStr(pg)), F, Len(FilterKeys))

\* the URL parameters the store's writers produce for filters F on page pg:
\* every filter through handleFilterChange, then the page as the
\* pagination buttons write it
serialize(F, pg) ==
    Set(WriteFilters(<<>>, F, Len(FilterKeys)), "page", ToStr(pg))

\* the pagination block is rendered only below a non-empty, loaded list
PaginationRendered ==
    PageInteractive /\ ~loading /\ tasks.n # 0 /\ pagination.total_pages > 1

PreviousPage ==
    /\ PaginationRendered
    /\ page # 1
    /\ setSearchParams(Set(searchParams, "page", ToStr(Max(1, page - 1))))
    /\ last' = [op |-> "previous", id |-> 0, key |-> "", value |-> ""]
    /\ UNCHANGED <<inflight, issued, tasks, pagination, shown, loading, toasts>>
    /\ UNCHANGED <<mounted, formVars, statsVars>>

NextPage ==
    /\ PaginationRendered
    /\ page # pagination.total_pages
    /\ setSearchParams(Set(searchParams, "page",
                           ToStr(Min(pagination.total_pages, page + 1))))
    /\ last' = [op |-> "next", id |-> 0, key |-> "", value |-> ""]
    /\ UNCHANGED <<inflight, issued, tasks, pagination, shown, loading, toasts>>
    /\ UNCHANGED <<mounted, formVars, statsVars>>

\* ------------------------------------------------------------ loadTasks
RECURSIVE WithDefaults(_, _)
\* p with the first n default parameters added where absent
WithDefaults(p, n) ==
    IF n = 0 THEN p
    ELSE LET q == WithDefaults(p, n - 1)
         IN  IF Has(q, DefaultParams[n].k) THEN q ELSE Append(q, DefaultParams[n])

\* a loadTasks that sends every default the URL leaves out
loadTasksCallCanonical(closure) ==
    /\ loading' = IF mounted THEN TRUE ELSE loading
    /\ issued' = issued + 1
    /\ inflight' = inflight \cup
           {[id |-> issued + 1, params |-> WithDefaults(closure, Len(DefaultParams)),
             url |-> toString(WithDefaults(closure, Len(DefaultParams)))]}

\* loadTasks() up to its await: setLoading(true), GET /tasks?params
loadTasksCall(closure) ==
    /\ loading' = IF mounted THEN TRUE ELSE loading
    /\ issued' = issued + 1
    /\ inflight' = inflight \cup
           {[id |-> issued + 1, params |-> closure, url |-> toString(closure)]}

\* the setTimeout callback of the debounce effect runs after 500 ms
TimerFire(i) ==
    /\ issued < MaxFetch
    /\ loadTasksCall(timers[i])
    /\ timers' = SubSeq(timers, 1, i - 1) \o SubSeq(timers, i + 1, Len(timers))
    /\ handler' = IF i = handler THEN 0
                  ELSE IF i < handler THEN handler - 1 ELSE handler
    /\ burst' = [burst EXCEPT !.fetches = Append(@, toString(timers[i]))]
    /\ last' = [op |-> "fire", id |-> issued + 1, key |-> "", value |-> ""]
    /\ UNCHANGED <<searchParams, tasks, pagination, shown, toasts>>
    /\ UNCHANGED <<mounted, formVars, statsVars>>

\* a success path that forgets setPagination
loadTasksThenTasksOnly(f, data) ==
    /\ tasks' = data.tasks
    /\ shown' = [shown EXCEPT !.tasks = f.id]
    /\ loading' = FALSE
    /\ UNCHANGED <<pagination, toasts>>

\* a success path whose setters still write after the view is gone
loadTasksThenAfterUnmount(f, data) ==
    /\ tasks' = data.tasks
    /\ pagination' = data.pagination
    /\ shown' = [tasks |-> f.id, pagination |-> f.id]
    /\ loading' = FALSE
    /\ UNCHANGED toasts

\* view state after loadTasks resumes with response.data (try, then finally);
\* the state setters of an unmounted component change nothing
loadTasksThen(f, data) ==
    IF mounted
    THEN /\ tasks' = data.tasks
         /\ pagination' = data.pagination
         /\ shown' = [tasks |-> f.id, pagination |-> f.id]
         /\ loading' = FALSE
         /\ UNCHANGED toasts
    ELSE UNCHANGED <<tasks, pagination, shown, loading, toasts>>

\* a failure path that empties the list it could not reload
loadTasksCatchClearing(f) ==
    /\ toasts' = Append(toasts, [description |-> "errorLoadingTasks", id |-> f.id])
    /\ tasks' = [n |-> 0]
    /\ shown' = [shown EXCEPT !.tasks = 0]
    /\ loading' = FALSE
    /\ UNCHANGED pagination

\* view state after loadTasks resumes with a rejection (catch, then finally)
loadTasksCatch(f) ==
    /\ toasts' = Append(toasts, [description |-> "errorLoadingTasks", id |-> f.id])
    /\ loading' = IF mounted THEN FALSE ELSE loading
    /\ UNCHANGED <<tasks, pagination, shown>>

\* axios.get resolves with a 200 response
FetchResolve(f, total) ==
    /\ f \in inflight
    /\ inflight' = inflight \ {f}
    /\ loadTasksThen(f, ServerResponse(f.params, total))
    /\ last' = [op |-> "resolve", id |-> f.id, key |-> "", value |-> ""]
    /\ UNCHANGED <<searchParams, timers, handler, issued, burst>>
    /\ UNCHANGED <<mounted, formVars, statsVars>>

\* axios.get rejects (network failure or an error status)
FetchReject(f) ==
    /\ f \in inflight
    /\ inflight' = inflight \ {f}
    /\ loadTasksCatch(f)
    /\ last' = [op |-> "reject", id |-> f.id, key |-> "", value |-> ""]
    /\ UNCHANGED <<searchParams, timers, handler, issued, burst>>
    /\ UNCHANGED <<mounted, formVars, statsVars>>

\* ---------------------------------------------------------- status counts
\* the bodies GET /tasks/stats answers with
ServerStats ==
    {[todo |-> 0, doing |-> 0, done |-> 0],
     [todo |-> 2, doing |-> 1, done |-> 2]}

\* loadStatusCounts up to its await: the request carries no parameters
loadStatusCountsCall ==
    /\ statsIssued' = statsIssued + 1
    /\ statsInflight' = statsInflight \cup
           {[id |-> statsIssued + 1, url |-> "/tasks/stats"]}

\* a total that leaves the done tasks out
loadStatusCountsThenNoDone(data) ==
    [todo |-> data.todo, doing |-> data.doing, done |-> data.done,
     total |-> data.todo + data.doing]

\* the value loadStatusCounts passes to setStatusCounts
loadStatusCountsThen(data) ==
    [todo |-> data.todo, doing |-> data.doing, done |-> data.done,
     total |-> data.todo + data.doing + data.done]

\* GET /tasks/stats of request r succeeds with body data
StatsResolve(r, data) ==
    /\ r \in statsInflight
    /\ statsInflight' = statsInflight \ {r}
    /\ statusCounts' = IF mounted THEN loadStatusCountsThen(data) ELSE statusCounts
    /\ last' = [op |-> "stats", id |-> r.id, key |-> "", value |-> ""]
    /\ UNCHANGED <<searchParams, timers, handler, inflight, issued, tasks,
                   pagination, shown, loading, toasts, burst, mounted, formVars,
                   statsIssued>>

\* GET /tasks/stats of request r fails: the catch only logs
StatsReject(r) ==
    /\ r \in statsInflight
    /\ statsInflight' = statsInflight \ {r}
    /\ last' = [op |-> "statsfail", id |-> r.id, key |-> "", value |-> ""]
    /\ UNCHANGED <<searchParams, timers, handler, inflight, issued, tasks,
                   pagination, shown, loading, toasts, burst, mounted, formVars,
                   statusCounts, statsIssued>>

\* ------------------------------------------------------- form validation
NoDate == 0 - 1    \* due_date: null

\* a title string: lead whitespace characters, body characters that begin
\* and end with a non-blank one, trail whitespace characters
Title(lead, body, trail) == [lead |-> lead, body |-> body, trail |-> trail]

\* String.prototype.length
length(s) == s.lead + s.body + s.trail

\* a validation that measures the title as typed
trimForgotten(s) == s

\* String.prototype.trim
trim(s) == Title(0, s.body, 0)

\* a date comparison that keeps the time of day
setHoursKept(d) == d

\* Date.prototype.setHours(0, 0, 0, 0): the local midnight that starts d's day
setHours0(d) == (d \div 24) * 24

\* the errors object the validation effect builds for draft form at time clock
validationEffect(form, clock) ==
    LET len == length(trim(form.title))
        title == IF len > 0 /\ (len < 3 \/ len > 120) THEN "titleLengthError"
                 ELSE IF len = 0 THEN "titleRequiredError"
                 ELSE NULL
        due_date == IF form.due_date # NoDate
                       /\ setHours0(form.due_date) < setHours0(clock)
                    THEN "dueDateInPastError"
                    ELSE NULL
        errors == [title |-> title, due_date |-> due_date]
    IN  [key \in {k \in {"title", "due_date"} : errors[k] # NULL} |-> errors[key]]

\* formErrors after the render that replaces draft old by draft new: the
\* effect runs again when one of its dependencies title, due_date changed
\* (a due_date that is a new Date object always counts as changed)
formErrorsAfter(old, new, newDate) ==
    IF new.title # old.title \/ newDate
    THEN validationEffect(new, now)
    ELSE formErrors

\* useState initial value of taskForm, and the draft of a new task
DefaultForm ==
    [title |-> Title(0, 0, 0), description |-> "", status |-> "todo",
     priority |-> "med", due_date |-> NoDate, tags |-> "",
     assigned_to |-> "unassigned"]

\* editingTask: null
NoTask ==
    [id |-> 0, title |-> Title(0, 0, 0), description |-> NULL, status |-> "todo",
     priority |-> "med", due_date |-> NoDate, tags |-> NULL, assigned_to |-> NULL]

\* the tasks whose edit and delete buttons the list offers
ListedTasks ==
    {[id |-> 1, title |-> Title(0, 3, 0), description |-> "fix it",
      status |-> "doing", priority |-> "high", due_date |-> NoDate,
      tags |-> "ui", assigned_to |-> "Admin User"],
     [id |-> 2, title |-> Title(1, 2, 0), description |-> NULL,
      status |-> "todo", priority |-> "low", due_date |-> 24 + 9,
      tags |-> NULL, assigned_to |-> NULL],
     [id |-> 3, title |-> Title(0, 121, 0), description |-> "",
      status |-> "done", priority |-> "med", due_date |-> 23,
      tags |-> "", assigned_to |-> ""]}

\* the draft openTaskModal builds from a task: new Date(task.due_date) is
\* the same instant in a new object, null or empty texts become the
\* form's defaults
DraftOf(task) ==
    [title |-> task.title,
     description |-> OrElse(task.description, ""),
     status |-> task.status,
     priority |-> task.priority,
     due_date |-> task.due_date,
     tags |-> OrElse(task.tags, ""),
     assigned_to |-> OrElse(task.assigned_to, "unassigned")]

\* the task cards are rendered
TasksRendered == PageInteractive /\ ~loading /\ tasks.n # 0

\* an openTaskModal that leaves the draft alone for a new task
openTaskModalKeepDraft(task) ==
    /\ PageInteractive
    /\ task # NoTask => TasksRendered
    /\ editingTask' = task
    /\ taskForm' = IF task # NoTask THEN DraftOf(task) ELSE taskForm
    /\ formErrors' = formErrorsAfter(taskForm, taskForm',
                         taskForm.due_date # NoDate \/ taskForm'.due_date # NoDate)
    /\ showTaskModal' = TRUE
    /\ last' = [op |-> "open", id |-> task.id, key |-> "", value |-> ""]
    /\ UNCHANGED <<searchParams, timers, handler, inflight, issued, tasks,
                   pagination, shown, loading, toasts, burst, mounted,
                   mutations, mutIssued, now, statsVars>>

\* New Task button (task = NoTask) or the edit button of a task card
openTaskModal(task) ==
    /\ PageInteractive
    /\ task # NoTask => TasksRendered
    /\ editingTask' = task
    /\ taskForm' = IF task # NoTask THEN DraftOf(task) ELSE DefaultForm
    /\ formErrors' = formErrorsAfter(taskForm, taskForm',
                         taskForm.due_date # NoDate \/ taskForm'.due_date # NoDate)
    /\ showTaskModal' = TRUE
    /\ last' = [op |-> "open", id |-> task.id, key |-> "", value |-> ""]
    /\ UNCHANGED <<searchParams, timers, handler, inflight, issued, tasks,
                   pagination, shown, loading, toasts, burst, mounted,
                   mutations, mutIssued, now, statsVars>>

\* onChange of the title input: the input's value changed to value
setTitle(value) ==
    /\ mounted /\ showTaskModal
    /\ value # taskForm.title
    /\ taskForm' = [taskForm EXCEPT !.title = value]
    /\ formErrors' = formErrorsAfter(taskForm, taskForm', FALSE)
    /\ last' = [op |-> "title", id |-> 0, key |-> "", value |-> ""]
    /\ UNCHANGED <<searchParams, timers, handler, inflight, issued, tasks,
                   pagination, shown, loading, toasts, burst, mounted,
                   showTaskModal, editingTask, mutations, mutIssued, now,
                   statsVars>>

\* onValueChange of the status Select: not a dependency of the validation
setStatus(value) ==
    /\ mounted /\ showTaskModal
    /\ value # taskForm.status
    /\ taskForm' = [taskForm EXCEPT !.status = value]
    /\ last' = [op |-> "status", id |-> 0, key |-> "", value |-> ""]
    /\ UNCHANGED <<searchParams, timers, handler, inflight, issued, tasks,
                   pagination, shown, loading, toasts, burst, mounted,
                   showTaskModal, editingTask, formErrors, mutations, mutIssued,
                   now, statsVars>>

\* onSelect of the due date Calendar; date = NoDate deselects the day
selectDate(date) ==
    /\ mounted /\ showTaskModal
    /\ taskForm' = [taskForm EXCEPT !.due_date = date]
    /\ formErrors' = formErrorsAfter(taskForm, taskForm', TRUE)
    /\ last' = [op |-> "date", id |-> 0, key |-> "", value |-> ""]
    /\ UNCHANGED <<searchParams, timers, handler, inflight, issued, tasks,
                   pagination, shown, loading, toasts, burst, mounted,
                   showTaskModal, editingTask, mutations, mutIssued, now,
                   statsVars>>

\* Cancel button, Escape or a click outside the dialog
closeTaskModal ==
    /\ mounted /\ showTaskModal
    /\ showTaskModal' = FALSE
    /\ last' = [op |-> "cancel", id |-> 0, key |-> "", value |-> ""]
    /\ UNCHANGED <<searchParams, timers, handler, inflight, issued, tasks,
                   pagination, shown, loading, toasts, burst, mounted,
                   editingTask, taskForm, formErrors, mutations, mutIssued, now,
                   statsVars>>

\* local midnight passes while the view is open
Midnight ==
    /\ mounted
    /\ now \div 24 <= MaxMidnights
    /\ now' = setHours0(now) + 24
    /\ last' = [op |-> "midnight", id |-> 0, key |-> "", value |-> ""]
    /\ UNCHANGED <<searchParams, timers, handler, inflight, issued, tasks,
                   pagination, shown, loading, toasts, burst, mounted,
                   showTaskModal, editingTask, taskForm, formErrors, mutations,
                   mutIssued, statsVars>>

\* -------------------------------------------------------------- mutations
\* disabled attribute of the submit button
SubmitDisabled == DOMAIN formErrors # {}

\* the axios call of a handler: the request, and the loadTasks the handler
\* will call when it resumes
Request(method, url) ==
    [id |-> mutIssued + 1, method |-> method, url |-> url, closure |-> searchParams]

\* a submit handler without the formErrors check
handleTaskSubmitUnchecked ==
    /\ mounted /\ showTaskModal
    /\ mutIssued < MaxMut
    /\ mutations' = mutations \cup
           {IF editingTask # NoTask
            THEN Request("PUT", "/tasks/" \o ToStr(editingTask.id))
            ELSE Request("POST", "/tasks")}
    /\ mutIssued' = mutIssued + 1
    /\ last' = [op |-> "submit", id |-> mutIssued + 1, key |-> "", value |-> ""]
    /\ UNCHANGED <<searchParams, timers, handler, inflight, issued, tasks,
                   pagination, shown, loading, toasts, burst, mounted,
                   showTaskModal, editingTask, taskForm, formErrors, now,
                   statsVars>>

\* onSubmit of the task form, up to its await
handleTaskSubmit ==
    /\ mounted /\ showTaskModal
    /\ IF DOMAIN formErrors # {}
       THEN /\ Len(toasts) < MaxToasts
            /\ toasts' = Append(toasts, [description |-> "fixErrors", id |-> 0])
            /\ last' = [op |-> "blocked", id |-> 0, key |-> "", value |-> ""]
            /\ UNCHANGED <<mutations, mutIssued>>
       ELSE /\ mutIssued < MaxMut
            /\ mutations' = mutations \cup
                   {IF editingTask # NoTask
                    THEN Request("PUT", "/tasks/" \o ToStr(editingTask.id))
                    ELSE Request("POST", "/tasks")}
            /\ mutIssued' = mutIssued + 1
            /\ last' = [op |-> "submit", id |-> mutIssued + 1, key |-> "", value |-> ""]
            /\ UNCHANGED toasts
    /\ UNCHANGED <<searchParams, timers, handler, inflight, issued, tasks,
                   pagination, shown, loading, burst, mounted, showTaskModal,
                   editingTask, taskForm, formErrors, now, statsVars>>

\* delete button of a task card, confirmed, up to its await
deleteTask(taskId) ==
    /\ TasksRendered
    /\ mutIssued < MaxMut
    /\ mutations' = mutations \cup {Request("DELETE", "/tasks/" \o ToStr(taskId))}
    /\ mutIssued' = mutIssued + 1
    /\ last' = [op |-> "delete", id |-> mutIssued + 1, key |-> "", value |-> ""]
    /\ UNCHANGED <<searchParams, timers, handler, inflight, issued, tasks,
                   pagination, shown, loading, toasts, burst, mounted,
                   showTaskModal, editingTask, taskForm, formErrors, now,
                   statsVars>>

Done == [POST |-> "taskCreated", PUT |-> "taskUpdated", DELETE |-> "taskDeleted"]

\* a continuation that reloads the list but not the counts
MutationResolveNoStats(m) ==
    /\ m \in mutations
    /\ issued < MaxFetch
    /\ mutations' = mutations \ {m}
    /\ toasts' = Append(toasts, [description |-> Done[m.method], id |-> m.id])
    /\ showTaskModal' = IF mounted /\ m.method # "DELETE" THEN FALSE ELSE showTaskModal
    /\ loadTasksCall(m.closure)
    /\ last' = [op |-> Done[m.method], id |-> m.id, key |-> "", value |-> ""]
    /\ UNCHANGED <<searchParams, timers, handler, tasks, pagination, shown,
                   burst, mounted, editingTask, taskForm, formErrors, mutIssued,
                   now, statsVars>>

\* the request of m succeeds: handleTaskSubmit or deleteTask resumes after
\* its await
MutationResolve(m) ==
    /\ m \in mutations
    /\ issued < MaxFetch
    /\ mutations' = mutations \ {m}
    /\ toasts' = Append(toasts, [description |-> Done[m.method], id |-> m.id])
    /\ showTaskModal' = IF mounted /\ m.method # "DELETE" THEN FALSE ELSE showTaskModal
    /\ loadTasksCall(m.closure)
    /\ loadStatusCountsCall
    /\ last' = [op |-> Done[m.method], id |-> m.id, key |-> "", value |-> ""]
    /\ UNCHANGED <<searchParams, timers, handler, tasks, pagination, shown,
                   burst, mounted, editingTask, taskForm, formErrors, mutIssued,
                   now, statusCounts>>

\* description of the error toast: handleTaskSubmit prefers the detail of
\* the response body, deleteTask never reads it
Failed(method, detail) ==
    IF method = "DELETE" THEN "errorDeletingTask"
    ELSE IF detail # NULL THEN detail
    ELSE "errorSavingTask"

\* error.response?.data?.detail of a failed request
ServerDetails == {NULL, "Title must not be empty"}

\* a catch block that also closes the dialog
MutationRejectClosing(m, detail) ==
    /\ m \in mutations
    /\ mutations' = mutations \ {m}
    /\ toasts' = Append(toasts, [description |-> Failed(m.method, detail), id |-> m.id])
    /\ showTaskModal' = FALSE
    /\ last' = [op |-> "failed", id |-> m.id, key |-> m.method, value |-> ""]
    /\ UNCHANGED <<searchParams, timers, handler, inflight, issued, tasks,
                   pagination, shown, loading, burst, mounted, editingTask,
                   taskForm, formErrors, mutIssued, now, statsVars>>

\* the request of m fails: the catch block of the handler runs
MutationReject(m, detail) ==
    /\ m \in mutations
    /\ mutations' = mutations \ {m}
    /\ toasts' = Append(toasts, [description |-> Failed(m.method, detail), id |-> m.id])
    /\ last' = [op |-> "failed", id |-> m.id, key |-> m.method, value |-> ""]
    /\ UNCHANGED <<searchParams, timers, handler, inflight, issued, tasks,
                   pagination, shown, loading, burst, mounted, showTaskModal,
                   editingTask, taskForm, formErrors, mutIssued, now, statsVars>>

\* ------------------------------------------------------------- teardown
\* a teardown whose effect cleanup is missing
UnmountNoCleanup ==
    /\ mounted
    /\ mounted' = FALSE
    /\ last' = [op |-> "unmount", id |-> 0, key |-> "", value |-> ""]
    /\ UNCHANGED <<searchParams, timers, handler, inflight, issued, tasks,
                   pagination, shown, loading, toasts, burst, formVars, statsVars>>

\* the user navigates away: the Dashboard unmounts and the cleanup of the
\* debounce effect runs; requests in flight are left alone
Unmount ==
    /\ mounted
    /\ mounted' = FALSE
    /\ timers' = clearTimeout(timers, handler)
    /\ handler' = 0
    /\ last' = [op |-> "unmount", id |-> 0, key |-> "", value |-> ""]
    /\ UNCHANGED <<searchParams, inflight, issued, tasks, pagination, shown,
                   loading, toasts, burst, formVars, statsVars>>

\* ------------------------------------------------------- specification
\* the dialog state after the first render and its validation effect, at
\* ten o'clock of day 1
FormClosed ==
    /\ now = 24 + 10
    /\ showTaskModal = FALSE
    /\ editingTask = NoTask
    /\ taskForm = DefaultForm
    /\ formErrors = validationEffect(DefaultForm, now)
    /\ mutations = {}
    /\ mutIssued = 0

\* the state after the first render of a view opened at ?url and its effects
Mounted(url) ==
    /\ searchParams = url
    /\ timers = <<url>>
    /\ handler = 1
    /\ inflight = {}
    /\ issued = 0
    /\ tasks = [n |-> 0]
    /\ pagination = [page |-> ReqPage(url), per_page |-> ReqPerPage(url),
                     total |-> 0, total_pages |-> 0]
    /\ shown = [tasks |-> 0, pagination |-> 0]
    /\ loading = TRUE
    /\ toasts = <<>>
    /\ burst = [sets |-> 0, fetches |-> <<>>]
    /\ last = [op |-> "mount", id |-> 0, key |-> "", value |-> ""]
    /\ mounted = TRUE
    /\ FormClosed
    /\ statusCounts = [todo |-> 0, doing |-> 0, done |-> 0, total |-> 0]
    /\ statsInflight = {[id |-> 1, url |-> "/tasks/stats"]}
    /\ statsIssued = 1

\* what the filter panel passes to handleFilterChange in Spec
UserInputs ==
    {<<"search", "bug">>, <<"search", "">>}

\* the view is opened at /dashboard
Init == Mounted(<<>>)

Next ==
    \/ \E in \in UserInputs : handleFilterChange(in[1], in[2])
    \/ clearFilters
    \/ PreviousPage
    \/ NextPage
    \/ \E i \in 1..Len(timers) : TimerFire(i)
    \/ \E f \in inflight, total \in ServerTotals : FetchResolve(f, total)
    \/ \E f \in inflight : FetchReject(f)
    \/ \E r \in statsInflight, data \in ServerStats : StatsResolve(r, data)
    \/ \E r \in statsInflight : StatsReject(r)
    \/ Unmount

Spec == Init /\ [][Next]_vars

\* ------------------------------------------- the store after first load
\* the state after the view opened at ?url has completed its first load
Loaded(url, total) ==
    /\ searchParams = url
    /\ timers = <<>>
    /\ handler = 0
    /\ inflight = {}
    /\ issued = 1
    /\ tasks = ServerResponse(url, total).tasks
    /\ pagination = ServerResponse(url, total).pagination
    /\ shown = [tasks |-> 1, pagination |-> 1]
    /\ loading = FALSE
    /\ toasts = <<>>
    /\ burst = [sets |-> 0, fetches |-> <<toString(url)>>]
    /\ last = [op |-> "resolve", id |-> 1, key |-> "", value |-> ""]
    /\ mounted = TRUE
    /\ FormClosed
    /\ statusCounts = loadStatusCountsThen([todo |-> 2, doing |-> 1, done |-> 2])
    /\ statsInflight = {}
    /\ statsIssued = 1

\* the URLs the view is opened with in SpecStore
StoreURLs ==
    {<<>>,
     <<Pair("page", "2")>>,
     <<Pair("search", "bug"), Pair("status", "done"), Pair("page", "4")>>,
     <<Pair("status", "todo"), Pair("page", "3"), Pair("per_page", "10")>>}

\* what handleFilterChange is called with in SpecStore
StoreInputs ==
    ({"search", "status", "assigned_to", "sort_by"} \X {"", "all", "unassigned"})
    \cup {<<"search", "bug">>, <<"status", "todo">>, <<"status", "done">>,
          <<"assigned_to", "Admin User">>, <<"sort_by", "title">>,
          <<"sort_by", "created_at">>}

InitStore == \E url \in StoreURLs, total \in ServerTotals : Loaded(url, total)

NextStore ==
    \/ \E in \in StoreInputs : handleFilterChange(in[1], in[2])
    \/ clearFilters
    \/ PreviousPage
    \/ NextPage

SpecStore == InitStore /\ [][NextStore]_vars

\* ------------------------------------------------- URLs typed by hand
\* the URLs the view is opened with in SpecParse: malformed and empty
\* page and per_page values, keys the view does not know
ParseURLs ==
    {<<Pair("page", "abc")>>,
     <<Pair("per_page", "abc"), Pair("utm", "mail")>>,
     <<Pair("page", ""), Pair("status", "all")>>,
     <<Pair("utm", "mail"), Pair("status", "done"), Pair("page", "2")>>}

\* what handleFilterChange is called with in SpecParse
ParseInputs ==
    {<<"search", "bug">>, <<"status", "all">>, <<"sort_by", "title">>}

InitParse == \E url \in ParseURLs : Mounted(url)

NextParse ==
    \/ \E in \in ParseInputs : handleFilterChange(in[1], in[2])
    \/ clearFilters
    \/ PreviousPage
    \/ NextPage
    \/ \E i \in 1..Len(timers) : TimerFire(i)
    \/ \E f \in inflight : ServerAccepts(f.params) /\ FetchResolve(f, 15)
    \/ \E f \in inflight : ~ServerAccepts(f.params) /\ FetchReject(f)

SpecParse == InitParse /\ [][NextParse]_vars

\* ------------------------------------- writes that outrun the render
\* what handleFilterChange is called with in SpecBatch
BatchInputs ==
    {<<"search", "bug">>, <<"search", "">>, <<"status", "done">>,
     <<"status", "all">>, <<"priority", "high">>}

InitBatch == \E total \in ServerTotals : Loaded(<<>>, total)

NextBatch ==
    \/ \E in \in BatchInputs : handleFilterChange(in[1], in[2])
    \/ \E a \in BatchInputs, b \in BatchInputs :
           a[1] # b[1] /\ handleFilterChangeTwice(a[1], a[2], b[1], b[2])
    \/ clearFilters
    \/ NextPage
    \/ PreviousPage

SpecBatch == InitBatch /\ [][NextBatch]_vars

\* ------------------------------------- timers fire, requests are answered
NextLive ==
    \/ \E in \in UserInputs : handleFilterChange(in[1], in[2])
    \/ \E i \in 1..Len(timers) : TimerFire(i)
    \/ \E f \in inflight, total \in ServerTotals : FetchResolve(f, total)

\* a pending timer runs after its 500 ms, and the server answers every
\* request with a 200
Fairness ==
    /\ WF_vars(\E i \in 1..Len(timers) : TimerFire(i))
    /\ \A id \in 1..MaxFetch :
           WF_vars(\E f \in inflight, total \in ServerTotals :
                       f.id = id /\ FetchResolve(f, total))

SpecLive == Init /\ [][NextLive]_vars /\ Fairness

\* ------------------------------------------------ the task dialog
\* what the user types into the title input
TypedTitles ==
    {Title(0, 0, 0), Title(2, 0, 0), Title(0, 2, 0), Title(0, 3, 0),
     Title(1, 2, 1), Title(0, 120, 0), Title(1, 120, 0), Title(0, 121, 0)}

\* what the Calendar passes to onSelect: no day, or the local midnight of
\* day 0, 1, 2
CalendarDates == {NoDate, 0, 24, 48}

InitForm == Loaded(<<>>, 5)

NextForm ==
    \/ \E task \in ListedTasks \cup {NoTask} : openTaskModal(task)
    \/ \E value \in TypedTitles : setTitle(value)
    \/ \E date \in CalendarDates : selectDate(date)
    \/ \E value \in {"todo", "doing"} : setStatus(value)
    \/ closeTaskModal
    \/ handleTaskSubmit
    \/ Midnight

SpecForm == InitForm /\ [][NextForm]_vars

\* ------------------------------------------ mutations and their reloads
NextMut ==
    \/ \E task \in {t \in ListedTasks \cup {NoTask} : t.id <= 1} : openTaskModal(task)
    \/ setTitle(Title(0, 3, 0))
    \/ closeTaskModal
    \/ handleTaskSubmit
    \/ \E task \in {t \in ListedTasks : t.id = 1} : deleteTask(task.id)
    \/ \E m \in mutations : MutationResolve(m)
    \/ \E m \in mutations, detail \in ServerDetails : MutationReject(m, detail)
    \/ \E i \in 1..Len(timers) : TimerFire(i)
    \/ \E f \in inflight : FetchResolve(f, 5)
    \/ \E r \in statsInflight, data \in ServerStats : StatsResolve(r, data)
    \/ \E r \in statsInflight : StatsReject(r)
    \/ handleFilterChange("search", "bug")

SpecMut == Init /\ [][NextMut]_vars

\* ================================================================ claims
NoOpValues == {"", "all", "unassigned"}

\* C1: a fetch result that arrives after the result of a later-issued fetch
\* was applied does not overwrite it: the displayed task list and
\* PaginationMeta never go back to those of an earlier-issued fetch.
C1_StaleResultRejected ==
    [][shown'.tasks >= shown.tasks /\ shown'.pagination >= shown.pagination]_vars

\* C2: a burst of N >= 1 URL changes with no timer firing in between issues
\* no fetch while it lasts and, once its timer has fired, exactly one fetch,
\* whose query string is that of the FilterSet after the last change
\* (while the view is mounted: teardown cancels the timer of the burst).
C2_DebounceCoalescing ==
    (mounted /\ burst.sets >= 1) =>
        IF timers = <<>>
        THEN burst.fetches = <<toString(searchParams)>>
        ELSE burst.fetches = <<>>

C2_Witness ==
    /\ burst.sets = 2
    /\ timers = <<>>
    /\ last.op = "fire"
    /\ Len(burst.fetches) = 1

\* C3: after handleFilterChange(key, value), whatever the key, the value and
\* the page before, the URL holds page=1 and the view derives page 1.
C3_PageReset ==
    last.op = "set" => Get(searchParams, "page") = "1" /\ page = 1

C3_Witness ==
    /\ last.op = "set"
    /\ last.key = "status"
    /\ pagination.page = 3
    /\ burst.sets = 1
    /\ page = 1

\* C4: handleFilterChange(key, value) with value "", "all" or "unassigned"
\* leaves no pair of key in the parameters, and no parameter ever holds one
\* of these values.
C4_NoOpStripping ==
    /\ (last.op = "set" /\ last.value \in NoOpValues) => ~Has(searchParams, last.key)
    /\ last.op \in {"set", "clear", "previous", "next"} =>
           \A i \in 1..Len(searchParams) : searchParams[i].v \notin NoOpValues

C4_Witness ==
    /\ last = [op |-> "set", id |-> 0, key |-> "status", value |-> "all"]
    /\ pagination.page = 4
    /\ burst.sets = 1
    /\ toString(searchParams) = "search=bug&page=1"

\* C5: after clearFilters the query string is exactly
\* page=1&per_page=10&sort_by=created_at&sort_order=desc: the four defaults
\* and no other parameter.
C5_ClearResetsToDefaults ==
    last.op = "clear" =>
        /\ toString(searchParams) = "page=1&per_page=10&sort_by=created_at&sort_order=desc"
        /\ page = 1
        /\ per_page = 10
        /\ \A key \in {"search", "status", "priority", "tags", "due_date_start",
                       "due_date_end", "assigned_to"} : ~Has(searchParams, key)

C5_Witness ==
    /\ last.op = "clear"
    /\ pagination.page = 4
    /\ burst.sets = 1
    /\ Len(searchParams) = 4

\* C6: in a state clearFilters has just left, a second clearFilters cannot
\* change the query string: clearing twice yields the string of clearing once.
C6_ClearIdempotent ==
    last.op = "clear" =>
        ~ENABLED (clearFilters /\ toString(searchParams') # toString(searchParams))

C6_Witness ==
    /\ last.op = "clear"
    /\ burst.sets = 2
    /\ ENABLED clearFilters

\* C7: whenever a fetch result changes the displayed tasks or PaginationMeta,
\* it is the result of the most recently issued fetch.
C7_OnlyLatestApplied ==
    [][(tasks' # tasks \/ pagination' # pagination \/ shown' # shown) =>
           shown'.tasks = issued /\ shown'.pagination = issued]_vars

\* C8: while the most recently issued fetch is in flight, loading is true.
C8_LoadingWhileLatestOutstanding ==
    (\E f \in inflight : f.id = issued) => loading

\* C9: when a fetch fails, tasks and PaginationMeta stay as they were, one
\* error toast is added, and loading is false in the mounted view.
C9_FailureRetainsView ==
    [][last'.op = "reject" =>
           /\ tasks' = tasks
           /\ pagination' = pagination
           /\ shown' = shown
           /\ Len(toasts') = Len(toasts) + 1
           /\ toasts'[Len(toasts')] = [description |-> "errorLoadingTasks", id |-> last'.id]
           /\ mounted' => ~loading']_vars

C9_Witness ==
    /\ mounted
    /\ last.op = "reject"
    /\ shown.tasks # 0
    /\ tasks.n # 0
    /\ toasts # <<>>
    /\ ~loading

\* C10: tasks and PaginationMeta always come from the same response, and a
\* step that changes either replaces both by the body of one response.
C10_ReplacedTogether ==
    [][/\ shown'.tasks = shown'.pagination
       /\ (tasks' # tasks \/ pagination' # pagination \/ shown' # shown) =>
              \E f \in inflight, total \in ServerTotals :
                  /\ tasks' = ServerResponse(f.params, total).tasks
                  /\ pagination' = ServerResponse(f.params, total).pagination
                  /\ shown' = [tasks |-> f.id, pagination |-> f.id]]_vars

C10_Witness ==
    /\ last.op = "resolve"
    /\ shown = [tasks |-> 2, pagination |-> 2]
    /\ pagination.total = 15
    /\ tasks.n = 10

\* C11: the request a debounce timer issues carries the query string of the
\* URL parameters current when the timer fires, never that of the
\* parameters an earlier, cancelled timer was started with.
C11_FetchCarriesCurrentSnapshot ==
    last.op = "fire" =>
        \E f \in inflight :
            /\ f.id = last.id
            /\ f.params = searchParams
            /\ f.url = toString(searchParams)

C11_Witness ==
    /\ last.op = "fire"
    /\ burst.sets = 2
    /\ \E f \in inflight : f.id = last.id /\ f.url = "search=bug&page=1"

\* C12: teardown leaves no debounce timer pending, so no timer issues a
\* GET /tasks after it, and it leaves the requests in flight as they were.
C12_TeardownCancelsTimer ==
    /\ [](~mounted => timers = <<>>)
    /\ [][/\ ~mounted => last'.op # "fire"
          /\ last'.op = "unmount" => inflight' = inflight /\ issued' = issued]_vars

C12_Witness ==
    /\ last.op = "unmount"
    /\ burst.sets >= 1
    /\ burst.fetches = <<>>
    /\ inflight # {}

C14_TitleValidation ==
    LET n == taskForm.title.body
    IN  /\ ("title" \in DOMAIN formErrors) <=> (n \notin 3..120)
        /\ n = 0 => formErrors["title"] = "titleRequiredError"
        /\ (n \in 1..2 \/ n > 120) => formErrors["title"] = "titleLengthError"

C14_Witness ==
    /\ showTaskModal
    /\ last.op = "title"
    /\ taskForm.title = Title(1, 120, 0)
    /\ "title" \notin DOMAIN formErrors

\* C15: right after the draft was validated, the errors hold a due_date
\* error exactly when a due date is set and its day is before the day of
\* the clock, whatever the times of day.
C15_DueDateValidation ==
    last.op \in {"open", "title", "date"} =>
        (("due_date" \in DOMAIN formErrors) <=>
             (taskForm.due_date # NoDate /\ taskForm.due_date \div 24 < now \div 24))

C15_Witness ==
    /\ last.op = "open"
    /\ taskForm.due_date = 24 + 9
    /\ now = 24 + 10
    /\ "due_date" \notin DOMAIN formErrors

\* C16: while formErrors is not empty the submit button is disabled and no
\* step, a handled submit included, issues a POST or a PUT.
C16_SubmitBlocked ==
    [][DOMAIN formErrors # {} =>
           /\ SubmitDisabled
           /\ \A m \in mutations' \ mutations : m.method = "DELETE"]_vars

C16_Witness ==
    /\ last.op = "blocked"
    /\ DOMAIN formErrors = {"title"}
    /\ taskForm.title = Title(0, 2, 0)
    /\ mutIssued = 0

\* C17: whenever the dialog is open, so that a submit can be handled, the
\* stored errors are the validation of the current draft.
C17_ErrorsMatchDraft ==
    showTaskModal => formErrors = validationEffect(taskForm, now)

\* C18: a failed POST or PUT leaves the dialog as open as it was and the
\* draft unchanged and adds one error toast; the dialog goes from open to
\* closed only by a cancel or by a POST or PUT that succeeded.
C18_FailureKeepsModal ==
    [][/\ (last'.op = "failed" /\ last'.key \in {"POST", "PUT"}) =>
              /\ showTaskModal' = showTaskModal
              /\ taskForm' = taskForm
              /\ editingTask' = editingTask
              /\ Len(toasts') = Len(toasts) + 1
              /\ toasts'[Len(toasts')].description \in
                     {"errorSavingTask"} \cup (ServerDetails \ {NULL})
       /\ (showTaskModal /\ ~showTaskModal') =>
              last'.op \in {"cancel", "taskCreated", "taskUpdated"}]_vars

C18_Witness ==
    /\ last.op = "failed"
    /\ last.key = "PUT"
    /\ showTaskModal
    /\ editingTask.id = 1
    /\ toasts # <<>>

\* C19: one GET /tasks/stats is issued by the mount, and one more by every
\* step in which a create, an update or a delete succeeds.
C19_StatsRefreshed ==
    /\ statsIssued = 1 /\ statsInflight = {[id |-> 1, url |-> "/tasks/stats"]}
    /\ [][last'.op \in {"taskCreated", "taskUpdated", "taskDeleted"} =>
              /\ statsIssued' = statsIssued + 1
              /\ statsInflight' = statsInflight \cup
                     {[id |-> statsIssued', url |-> "/tasks/stats"]}]_vars

C19_Witness ==
    /\ last.op = "taskDeleted"
    /\ statsIssued = 2
    /\ \E r \in statsInflight : r.id = 2

\* C20: no filter, clear or page change, no timer and no GET /tasks result
\* changes statusCounts or issues a stats request; every stats request is
\* the bare /tasks/stats; total is always todo + doing + done.
C20_StatusCountsIndependent ==
    /\ [](/\ statusCounts.total =
                 statusCounts.todo + statusCounts.doing + statusCounts.done
          /\ \A r \in statsInflight : r.url = "/tasks/stats")
    /\ [][last'.op \in {"set", "clear", "previous", "next", "fire", "resolve",
                        "reject"} =>
              /\ statusCounts' = statusCounts
              /\ statsInflight' = statsInflight
              /\ statsIssued' = statsIssued]_vars

C20_Witness ==
    /\ last.op = "resolve"
    /\ Has(searchParams, "search")
    /\ pagination.total = 15
    /\ statusCounts.total = 5

\* a string is the decimal numeral of an integer
WellFormed(v) == \E n \in 0..MaxInt : ToStr(n) = v

KnownKeys ==
    {"page", "per_page", "search", "status", "priority", "tags", "due_date_start",
     "due_date_end", "assigned_to", "sort_by", "sort_order"}

\* C21: the derived page and per_page are always integers, equal to the
\* defaults 1 and 10 when the URL value is absent or no well-formed integer,
\* and the derived filters do not depend on keys the view does not know.
C21_TolerantParsing ==
    LET rawPage == Get(searchParams, "page")
        rawPerPage == Get(searchParams, "per_page")
        known == SelectSeq(searchParams, LAMBDA e : e.k \in KnownKeys)
    IN  /\ page # NaN
        /\ per_page # NaN
        /\ (rawPage = NULL \/ ~WellFormed(rawPage)) => page = 1
        /\ (rawPerPage = NULL \/ ~WellFormed(rawPerPage)) => per_page = 10
        /\ Filters(known) = filters

\* a FilterSet with its no-op values stripped
normalize(F) == [key \in DOMAIN F |-> IF F[key] \in NoOpValues THEN "" ELSE F[key]]

\* the filters the user asked for with the last handleFilterChange, no-op
\* value included
Asked ==
    IF last.op = "set" /\ last.key \in DOMAIN filters
    THEN [filters EXCEPT ![last.key] = last.value]
    ELSE filters

DefaultValues ==
    {Pair("page", "1"), Pair("per_page", "10"), Pair("sort_by", "created_at"),
     Pair("sort_order", "desc")}

\* C23 as stated: after a set or a clear the query string holds no key
\* whose value is a no-op value or the default of that key.
C23_NoDefaultSerialized ==
    last.op \in {"set", "clear"} =>
        \A i \in 1..Len(searchParams) :
            /\ searchParams[i].v \notin NoOpValues
            /\ searchParams[i] \notin DefaultValues

\* C23 amended: after a set or a clear on a URL free of no-op values the
\* query string holds no no-op value, but defaults are written out: page=1
\* by every set, sort_by=created_at when that is the value set, and all
\* four defaults by a clear.
C23_NoOpOmittedDefaultsWritten ==
    /\ last.op \in {"set", "clear"} =>
           {searchParams[i].v : i \in 1..Len(searchParams)} \cap NoOpValues = {}
    /\ last.op = "set" =>
           /\ Pair("page", "1") \in {searchParams[i] : i \in 1..Len(searchParams)}
           /\ last.value \notin NoOpValues =>
                  Pair(last.key, last.value) \in
                      {searchParams[i] : i \in 1..Len(searchParams)}
    /\ last.op = "clear" =>
           {searchParams[i] : i \in 1..Len(searchParams)} = DefaultValues

C23_Witness ==
    /\ last = [op |-> "set", id |-> 0, key |-> "sort_by", value |-> "created_at"]
    /\ Get(searchParams, "sort_by") = "created_at"
    /\ Get(searchParams, "page") = "1"
    /\ Has(searchParams, "search")

PairsOf(p) == {p[i] : i \in 1..Len(p)}

\* the view shows the search "bug" and nothing else: no other filter, page
\* 1, default sort and page size
OnlySearchBug ==
    /\ filters = [Filters(<<>>) EXCEPT !.search = "bug"]
    /\ page = 1
    /\ per_page = 10

\* C24 as stated: when the timer of a burst that left only the search
\* "bug" has fired, the one request of the burst carries exactly search=bug,
\* page=1, per_page=10, sort_by=created_at and sort_order=desc.
C24_RequestCarriesDefaults ==
    (mounted /\ last.op = "fire" /\ burst.sets >= 1 /\ OnlySearchBug) =>
        /\ Len(burst.fetches) = 1
        /\ \A f \in inflight : f.id = last.id =>
               PairsOf(f.params) = {Pair("search", "bug")} \cup DefaultValues

\* C24 amended: that request carries exactly the parameters of the URL:
\* search=bug and page=1, alone when the view was opened without a query
\* string, with the three other defaults only when a clear wrote them.
C24_RequestCarriesURL ==
    (mounted /\ last.op = "fire" /\ burst.sets >= 1 /\ OnlySearchBug) =>
        /\ burst.fetches = <<toString(searchParams)>>
        /\ \A f \in inflight : f.id = last.id =>
               /\ f.params = searchParams
               /\ PairsOf(f.params) \in
                      {{Pair("search", "bug"), Pair("page", "1")},
                       {Pair("search", "bug")} \cup DefaultValues}
               /\ burst.sets = 1 =>
                      f.url \in {"search=bug&page=1", "page=1&search=bug",
                       "page=1&per_page=10&sort_by=created_at&sort_order=desc&search=bug"}

C24_Witness ==
    /\ mounted
    /\ last.op = "fire"
    /\ burst = [sets |-> 1, fetches |-> <<"search=bug&page=1">>]
    /\ issued = 1
    /\ OnlySearchBug

\* C25: set calls take effect in issue order and none is lost: after two
\* calls on different keys issued before the view has rendered again, the
\* parameters are those of applying the first and then the second.
C25_SetsAppliedInOrder ==
    [][last'.op = "batch" =>
           searchParams' = FilterChangeParams(
               FilterChangeParams(searchParams, last'.key1, last'.value1),
               last'.key, last'.value)]_vars

\* C26: in every state, before the first response included, total_pages
\* is ceil(total / per_page) and at least 1.
C26_TotalPagesAtLeastOne ==
    /\ pagination.total_pages >= 1
    /\ pagination.total_pages =
           Max(1, CeilDiv(pagination.total, pagination.per_page))

\* C27: when the user has stopped changing the URL, so that from some
\* point on no timer is pending and no request is in flight, the view
\* ends up, for good, not loading and showing the response to the request
\* issued last, which is the one for the current URL.
C27_EventuallyCurrent ==
    <>[](timers = <<>> /\ inflight = {}) =>
        <>[](/\ ~loading
             /\ shown = [tasks |-> issued, pagination |-> issued]
             /\ pagination.page = page)

\* C28: a cancel issues no request; every opening leaves the draft equal
\* to the fields of the task opened, or to the defaults for a new task,
\* whatever the draft was before; editing the draft changes neither the
\* task list nor the task being edited.
C28_DraftDiscarded ==
    [][/\ last'.op = "cancel" => mutations' = mutations /\ mutIssued' = mutIssued
       /\ (last'.op = "open" /\ last'.id = 0) =>
              taskForm' = [title |-> Title(0, 0, 0), description |-> "",
                           status |-> "todo", priority |-> "med",
                           due_date |-> NoDate, tags |-> "",
                           assigned_to |-> "unassigned"]
       /\ (last'.op = "open" /\ last'.id # 0) =>
              /\ editingTask' \in ListedTasks
              /\ taskForm'.title = editingTask'.title
              /\ taskForm'.status = editingTask'.status
              /\ taskForm'.priority = editingTask'.priority
              /\ taskForm'.due_date = editingTask'.due_date
              /\ taskForm'.description =
                     (IF editingTask'.description = NULL THEN ""
                      ELSE editingTask'.description)
              /\ taskForm'.tags =
                     (IF editingTask'.tags = NULL THEN "" ELSE editingTask'.tags)
              /\ taskForm'.assigned_to =
                     (IF editingTask'.assigned_to \in {NULL, ""} THEN "unassigned"
                      ELSE editingTask'.assigned_to)
       /\ last'.op \in {"title", "date", "status"} =>
              tasks' = tasks /\ editingTask' = editingTask]_vars

C28_Witness ==
    /\ last.op = "open"
    /\ last.id = 0
    /\ taskForm = DefaultForm
    /\ Len(toasts) = 1
    /\ mutIssued = 0

\* C29: every GET /tasks, the reload after a successful create, update or
\* delete included, is issued with the URL parameters current in the step
\* that issues it.
C29_ReloadUsesCurrentFilters ==
    [][\A f \in inflight' \ inflight :
           f.params = searchParams' /\ f.url = toString(searchParams')]_vars

\* the parameters of p under keys other than those of K, in order
Others(p, K) == SelectSeq(p, LAMBDA e : e.k \notin K)

\* C30: a set writes its key and page and keeps every other parameter;
\* Previous and Next write page, max(1, page - 1) and
\* min(total_pages, page + 1), and keep every other parameter.
C30_WriteFrame ==
    [][/\ last'.op = "set" =>
              Others(searchParams', {last'.key, "page"})
                  = Others(searchParams, {last'.key, "page"})
       /\ last'.op = "previous" =>
              /\ Others(searchParams', {"page"}) = Others(searchParams, {"page"})
              /\ Get(searchParams', "page") = ToStr(Max(1, page - 1))
       /\ last'.op = "next" =>
              /\ Others(searchParams', {"page"}) = Others(searchParams, {"page"})
              /\ Get(searchParams', "page")
                     = ToStr(Min(pagination.total_pages, page + 1))]_vars

C30_Witness ==
    /\ last.op = "set" /\ last.key = "assigned_to"
    /\ searchParams = <<Pair("search", "bug"), Pair("status", "done"),
                        Pair("page", "1"), Pair("assigned_to", "Admin User")>>
====
